---- MODULE Spec2Model ----
(***************************************************************************)
(* Model of the scrolling engine of the Redmine REST API client            *)
(* (package redmine): Scroll, ApiUrl, BuildApiUrl, ApiClient.Get,          *)
(* DecodeResp and Pagination.NextPage, together with the HTTP test server  *)
(* the package's tests scroll over and the consumers that read the two     *)
(* channels Scroll returns.                                                *)
(***************************************************************************)
EXTENDS Integers, Sequences, FiniteSets, TLC

\* ------------------------------------------------------------------ bounds
\* largest total_count the source reports
MaxTotal == 3
\* largest page size the source serves
MaxLimit == 2
\* largest number of transient faults injected into one scroll operation
\* (faults are injected into scrolls of a source that paginates; the other
\* scrolls fail, or loop, on every attempt anyway)
MaxFaults == 1
\* length at which the history logs stop growing (never reached by an
\* operation that terminates: at most MaxTotal + 1 pages and MaxFaults
\* failed attempts)
MaxLog == MaxTotal + MaxFaults + 3
\* largest absolute value of the offset, limit and total handed to
\* Pagination.NextPage on its own
MaxVal == 3
\* largest absolute value of the project and issue ids of a payload
MaxId == 3
\* largest number of pieces in an input of Date.UnmarshalJSON
MaxBytes == 3

\* ------------------------------------------------------- program constants
\* make(chan E, 1), make(chan error, 1)
ChanCap == 1
\* page := 1
FirstPage == 1
\* the value of NextPage that ends the loop "for page > -1"
NoNextPage == 0 - 1

JsonDecodeError == "JsonDecodeError"
IoReadError == "IoReadError"
HttpError == "HttpError"
ApiEndpointUrlFatalError == "ApiEndpointUrlFatalError"
ApiNewRequestFatalError == "ApiNewRequestFatalError"
UrlJoinPathError == "UrlJoinPathError"
ValidationError == "ValidationError"
ZeroTimeDetectedError == "ZeroTimeDetectedError"
ProjectAndIssuePassedError == "ProjectAndIssuePassedError"
ProjectAndIssueMissedError == "ProjectAndIssueMissedError"

ProjectsApiEndpoint == "/projects.json"
IssuesApiEndpoint == "/issues.json"
TimeEntriesEndpoint == "/time_entries.json"

\* the type parameter E of Scroll[E]
Entities == {"Projects", "Issues", "TimeEntries"}

\* base URLs the tests configure: the test server, the test server plus
\* "/not-found", the unreachable "sd://sdsdsd" and the malformed "\n"
BaseUrls == {"server", "server/not-found", "sd://sdsdsd", "malformed"}

\* the time-entry filter of the README: a user id and a range of thirty
\* days; a time.Time is a calendar date and a time of day
Filters ==
    {[UserId |-> "1",
      StartDate |-> [date |-> <<2024, 3, 1>>, clock |-> <<0, 0, 0>>],
      EndDate |-> [date |-> <<2024, 3, 31>>, clock |-> <<0, 0, 0>>]]}

\* the ApiClient values the callers pass to Scroll
Configs ==
    [Url : BaseUrls, Token : {"secret"}, LogEnabled : {TRUE},
     TimeEntriesFilter : Filters]

\* the ways the callers read the channels: "select" on both channels in a
\* loop (README), "range" over the data channel only (scroll tests) and
\* "once": one select on both channels, then return (error tests)
Consumers == {"select", "range", "once"}

VARIABLES
    ac,          \* the ApiClient configuration Scroll was called with
    kind,        \* the entity kind E
    total,       \* the source: total_count of the collection
    limit,       \* the source: page size
    faults,      \* transient faults the transport may still inject
    consumer,    \* how the caller reads the channels
    pc,          \* position of Scroll's background task
    page,        \* Scroll's local variable page
    url,         \* api_endpoint_url
    resp,        \* the response body returned by ac.Get
    r,           \* the page decoded by DecodeResp
    pendErr,     \* the error about to be sent on errChan
    dataChan,    \* buffered contents of dataChan
    errChan,     \* buffered contents of errChan
    dataClosed,  \* close(dataChan) has run
    errClosed,   \* close(errChan) has run
    fetchLog,    \* history: page requested by each HTTP attempt
    resultLog,   \* history: outcome of each HTTP attempt
    errLog,      \* history: errors sent on errChan
    received,    \* consumer: items received so far, in order
    errsRecv,    \* consumer: errors received so far, in order
    firstRecv,   \* consumer: what its first successful receive was
    cDone,       \* consumer: saw the data channel closed and returned
    firstRun,    \* what an earlier scroll with the same configuration gave
    other,       \* the state of a second scroll operation, not running now
    post,        \* a payload to be created, and what its validation returned
    httpRes      \* an *http.Response that http_cli.Do has returned

vars == <<ac, kind, total, limit, faults, consumer, pc, page, url, resp, r,
          pendErr, dataChan, errChan, dataClosed, errClosed, fetchLog,
          resultLog, errLog, received, errsRecv, firstRecv, cDone,
          firstRun, other, post, httpRes>>

envVars ==
    <<ac, kind, total, limit, consumer, firstRun, other, post, httpRes>>
prodVars == <<pc, page, url, resp, r, pendErr>>
consVars == <<received, errsRecv, firstRecv, cDone>>

None == "none"
NoUrl == [base |-> None, path |-> None, query |-> {}, page |-> 0]
NoBody == [type |-> None]
NoPage == [Items |-> <<>>, Offset |-> 0, Limit |-> 0, Total |-> 0]
NoRes == [status |-> 0, body |-> NoBody, closes |-> 0]
NoRun == [done |-> FALSE, items |-> <<>>, clean |-> FALSE]

\* what one call of Scroll and its caller own: the type parameter, the
\* locals of Scroll and of its background task, the two channels, the
\* caller's position, and the histories kept of them
Started(e, c) ==
    [kind |-> e, consumer |-> c, pc |-> "build", page |-> FirstPage,
     url |-> NoUrl,
     resp |-> NoBody, r |-> NoPage, pendErr |-> None, dataChan |-> <<>>,
     errChan |-> <<>>, dataClosed |-> FALSE, errClosed |-> FALSE,
     fetchLog |-> <<>>, resultLog |-> <<>>, errLog |-> <<>>,
     received |-> <<>>, errsRecv |-> <<>>, firstRecv |-> None,
     cDone |-> FALSE]

\* the zero value of time.Time
ZeroTime == [date |-> <<1, 1, 1>>, clock |-> <<0, 0, 0>>]

\* the zero value of CreateTimeEntryPayload (the fields Validate reads), and
\* no payload validated yet; a nil error is the empty set, errors.Join(a, b)
\* the set of both
NoPost ==
    [payload |-> [ProjectID |-> 0, IssueID |-> 0, SpentOn |-> ZeroTime],
     err |-> {}, code |-> 0, msg |-> NoBody]

\* no second scroll operation
NoOther == [Started("Projects", "range") EXCEPT !.pc = "absent"]

\* ----------------------------------------------------------------- helpers
Min(a, b) == IF a < b THEN a ELSE b

Abs(a) == IF a < 0 THEN 0 - a ELSE a

\* Go's integer division a / b for b # 0: the quotient truncated toward zero
GoDiv(a, b) ==
    IF (a >= 0) = (b > 0)
    THEN Abs(a) \div Abs(b)
    ELSE 0 - (Abs(a) \div Abs(b))

\* items First..Last of the collection, as ids
Iter(a, b) == [i \in 1..(IF b >= a THEN b - a + 1 ELSE 0) |-> a + i - 1]

\* append to a history log until it is full
Log(s, x) == IF Len(s) < MaxLog THEN Append(s, x) ELSE s

RECURSIVE Flatten(_)
Flatten(ss) == IF ss = <<>> THEN <<>> ELSE Head(ss) \o Flatten(Tail(ss))

IsPrefix(s, t) == Len(s) <= Len(t) /\ s = SubSeq(t, 1, Len(s))

\* --------------------------------------------------------- URL construction
\* a BuildApiUrl that adds the page parameter from page 1 on
BuildApiUrl_FromOne(base, endpoint, v, p) ==
    IF base = "malformed"
    THEN [err |-> UrlJoinPathError, url |-> NoUrl]
    ELSE [err |-> "nil",
          url |-> [base |-> base, path |-> endpoint, query |-> v,
                   page |-> IF p >= 1 THEN p ELSE 0]]

\* BuildApiUrl: url.JoinPath fails on a malformed base; the page parameter
\* is added only when p > 1; 0 stands for "no page parameter"
BuildApiUrl(base, endpoint, v, p) ==
    IF base = "malformed"
    THEN [err |-> UrlJoinPathError, url |-> NoUrl]
    ELSE [err |-> "nil",
          url |-> [base |-> base, path |-> endpoint, query |-> v,
                   page |-> IF p > 1 THEN p ELSE 0]]

\* a ProjectsUrl that passes the user id of the filter on
ProjectsUrl_Filtered(c, p) ==
    BuildApiUrl(c.Url, ProjectsApiEndpoint,
                {<<"user_id", c.TimeEntriesFilter.UserId>>}, p)

ProjectsUrl(c, p) == BuildApiUrl(c.Url, ProjectsApiEndpoint, {}, p)

IssuesUrl(c, p) == BuildApiUrl(c.Url, IssuesApiEndpoint, {}, p)

\* t.Format("2006-01-02"): the calendar date, without the time of day
FormatDate(t) == t.date

TimeEntriesUrl(c, p) ==
    BuildApiUrl(c.Url, TimeEntriesEndpoint,
                {<<"user_id", c.TimeEntriesFilter.UserId>>,
                 <<"from", FormatDate(c.TimeEntriesFilter.StartDate)>>,
                 <<"to", FormatDate(c.TimeEntriesFilter.EndDate)>>}, p)

ApiUrl(e, c, p) ==
    CASE e = "Projects" -> ProjectsUrl(c, p)
      [] e = "Issues" -> IssuesUrl(c, p)
      [] e = "TimeEntries" -> TimeEntriesUrl(c, p)

\* ------------------------------------------------------------------ source
\* GetResponseParamsFromUrl: pagination of the page a request asks for
GetResponseParamsFromUrl(u, T, L) ==
    LET Offset == IF u.page # 0 THEN L * (u.page - 1) ELSE 0
    IN  [First |-> Offset + 1, Last |-> Min(Offset + L, T),
         Offset |-> Offset, Limit |-> L, Total |-> T]

\* GenerateJSON: the JSON body rendered from the response parameters
GenerateJSON(params) ==
    [type |-> "json",
     Items |-> Iter(params.First, params.Last),
     Offset |-> params.Offset, Limit |-> params.Limit,
     Total |-> params.Total]

\* the empty body of a 404, and a body whose read aborts (fakeReadCloser)
EmptyBody == [type |-> "empty"]
AbortBody == [type |-> "abort"]
\* a body that is not JSON (the text of an error page), and the JSON object
\* "{}" that carries neither items nor pagination fields
TextBody == [type |-> "text"]
ObjectBody == [type |-> "object"]

\* handleReq: a request whose path is one of the three endpoints gets the
\* page it asks for, any other path gets a 404 without a body
handleReq(u, T, L) ==
    IF u.base = "server"
    THEN [status |-> 200,
          body |-> GenerateJSON(GetResponseParamsFromUrl(u, T, L))]
    ELSE [status |-> 404, body |-> EmptyBody]

\* ------------------------------------------------------------------ fetch
\* what http.Client.Do can do with one GET: fail (unsupported scheme, or a
\* transient fault), or return the server's answer, whose body may be cut or
\* garbled by a transient fault
Transport(u, T, L, canFail) ==
    IF u.base = "sd://sdsdsd"
    THEN {[fault |-> FALSE, ok |-> FALSE, status |-> 0, body |-> NoBody]}
    ELSE {[fault |-> FALSE, ok |-> TRUE,
           status |-> handleReq(u, T, L).status,
           body |-> handleReq(u, T, L).body]}
         \cup (IF canFail
                THEN {[fault |-> TRUE, ok |-> FALSE, status |-> 0,
                       body |-> NoBody],
                      [fault |-> TRUE, ok |-> TRUE, status |-> 200,
                       body |-> AbortBody],
                      [fault |-> TRUE, ok |-> TRUE, status |-> 200,
                       body |-> EmptyBody]}
                ELSE {})

\* a Get that takes a status other than 200 for a failure
ClientGet_ChecksStatus(o) ==
    IF ~o.ok \/ o.status # 200
    THEN [body |-> NoBody, err |-> HttpError]
    ELSE [body |-> o.body, err |-> "nil"]

\* a Get that returns the transport's failure without wrapping it as a
\* recoverable HttpError
ClientGet_Unwrapped(o) ==
    IF ~o.ok
    THEN [body |-> NoBody, err |-> ApiNewRequestFatalError]
    ELSE [body |-> o.body, err |-> "nil"]

\* ApiClient.Get: a failure of http_cli.Do is returned joined with
\* HttpError, otherwise the body is returned whatever the status is
ClientGet(o) ==
    IF ~o.ok
    THEN [body |-> NoBody, err |-> HttpError]
    ELSE [body |-> o.body, err |-> "nil"]

\* ------------------------------------------------------------- pagination
\* a computation that divides whatever the limit is
LimitGuard_Any(p) == TRUE

\* if p.Limit > 0
LimitGuard(p) == p.Limit > 0

\* a NextPage that already stops when exactly one full page is left
NextPage_Inclusive(p) ==
    IF p.Total - p.Offset <= p.Limit
    THEN NoNextPage
    ELSE IF LimitGuard(p) THEN GoDiv(p.Offset + p.Limit, p.Limit) + 1 ELSE 0

\* a NextPage that is off by one page
NextPage_Skip(p) ==
    IF p.Total - p.Offset < p.Limit
    THEN NoNextPage
    ELSE IF LimitGuard(p) THEN GoDiv(p.Offset + p.Limit, p.Limit) + 2 ELSE 0

\* a NextPage that goes on after a page that was not full
NextPage_Late(p) ==
    IF p.Total - p.Offset < Min(p.Limit, 1)
    THEN NoNextPage
    ELSE IF LimitGuard(p) THEN GoDiv(p.Offset + p.Limit, p.Limit) + 1 ELSE 0

\* a NextPage that leaves out the step past the current page
NextPage_Same(p) ==
    IF p.Total - p.Offset < p.Limit
    THEN NoNextPage
    ELSE IF LimitGuard(p) THEN GoDiv(p.Offset + p.Limit, p.Limit) ELSE 0

\* Pagination.NextPage; the named result n keeps its zero value when the
\* limit is not positive
NextPage(p) ==
    IF p.Total - p.Offset < p.Limit
    THEN NoNextPage
    ELSE IF LimitGuard(p) THEN GoDiv(p.Offset + p.Limit, p.Limit) + 1 ELSE 0

\* the division n = (p.Offset+p.Limit)/p.Limit + 1 is executed with a zero
\* divisor: a run-time panic in Go
DivisionFault(p) ==
    /\ ~(p.Total - p.Offset < p.Limit)
    /\ LimitGuard(p)
    /\ p.Limit = 0

\* ----------------------------------------------------------------- decoder
\* the nil *E that DecodeResp returns together with an error
NilPage == [nil |-> TRUE]

\* an Unmarshal that finds no field for total_count and leaves Total zero
Unmarshalled_NoTotal(body) ==
    IF body.type = "object"
    THEN NoPage
    ELSE [Items |-> body.Items, Offset |-> body.Offset,
          Limit |-> body.Limit, Total |-> 0]

\* what json.Unmarshal leaves in new(E) for a body it accepts: fields the
\* body does not carry keep their zero values
Unmarshalled(body) ==
    IF body.type = "object"
    THEN NoPage
    ELSE [Items |-> body.Items, Offset |-> body.Offset,
          Limit |-> body.Limit, Total |-> body.Total]

\* a decoder that ignores the error of json.Unmarshal
DecodeResp_Lenient(body) ==
    CASE body.type = "abort" -> [page |-> NilPage, err |-> IoReadError]
      [] body.type \in {"empty", "text"} -> [page |-> NoPage, err |-> "nil"]
      [] body.type \in {"json", "object"} ->
            [page |-> Unmarshalled(body), err |-> "nil"]

\* a decoder that returns what it has filled in along with the error
DecodeResp_Partial(body) ==
    CASE body.type = "abort" -> [page |-> NilPage, err |-> IoReadError]
      [] body.type \in {"empty", "text"} ->
            [page |-> NoPage, err |-> JsonDecodeError]
      [] body.type \in {"json", "object"} ->
            [page |-> Unmarshalled(body), err |-> "nil"]

\* DecodeResp: io.ReadAll, then json.Unmarshal
DecodeResp(body) ==
    CASE body.type = "abort" -> [page |-> NilPage, err |-> IoReadError]
      [] body.type \in {"empty", "text"} ->
            [page |-> NilPage, err |-> JsonDecodeError]
      [] body.type \in {"json", "object"} ->
            [page |-> Unmarshalled(body), err |-> "nil"]

\* the bodies DecodeResp is called with on its own: the pages the test
\* server renders, and the bodies that cannot be read or parsed
Bodies ==
    {AbortBody, EmptyBody, TextBody, ObjectBody}
    \cup {GenerateJSON(GetResponseParamsFromUrl([page |-> p], T, L)) :
             T \in 0..MaxTotal, L \in 0..MaxLimit, p \in 1..(MaxTotal + 1)}

\* status codes of the responses handed to the tail of Get and to Create
Statuses == {200, 201, 404, 500}

\* ------------------------------------------------------------------ create
\* the error made by fmt.Errorf("response code: %d, body: %s", rcode, msg),
\* and the error of a failed read of the body
ResponseCodeError == "response code and body"
ReadError == "abort read"

\* io.ReadAll(rbody): the bytes read and the error of the read
ReadAll(body) ==
    IF body.type = "abort"
    THEN [data |-> EmptyBody, err |-> {ReadError}]
    ELSE [data |-> body, err |-> {}]

\* what http.Client.Do can do with one POST: fail, or return a response of
\* some status with some body
PostTransport(u) ==
    {[ok |-> FALSE, status |-> 0, body |-> NoBody]}
    \cup (IF u.base = "sd://sdsdsd"
          THEN {}
          ELSE [ok : {TRUE}, status : Statuses,
                body : {EmptyBody, TextBody, ObjectBody, AbortBody}])

\* a Create that takes every 2xx status for a success
CreateResult_Any2xx(rcode, rbody) ==
    IF rcode < 200 \/ rcode > 299
    THEN [err |-> {HttpError, ResponseCodeError} \cup ReadAll(rbody).err,
          code |-> rcode, msg |-> ReadAll(rbody).data]
    ELSE [err |-> {}, code |-> 0, msg |-> NoBody]

\* ApiClient.Create after Post returned without error: any status but 201
\* gives HttpError joined with the status code, the body read, and the
\* error of the read if there was one
CreateResult(rcode, rbody) ==
    IF rcode # 201
    THEN [err |-> {HttpError, ResponseCodeError} \cup ReadAll(rbody).err,
          code |-> rcode, msg |-> ReadAll(rbody).data]
    ELSE [err |-> {}, code |-> 0, msg |-> NoBody]

\* a call of ApiClient.Create for an issue or a time entry, with any of the
\* base URLs
CreateInit ==
    /\ ac \in Configs
    /\ kind \in {"Issues", "TimeEntries"}
    /\ total = 0
    /\ limit = 0
    /\ faults = 0
    /\ consumer = "once"
    /\ pc = "post"
    /\ page = FirstPage
    /\ url = [base |-> ac.Url,
              path |-> IF kind = "Issues" THEN IssuesApiEndpoint
                       ELSE TimeEntriesEndpoint,
              query |-> {}, page |-> 0]
    /\ resp = NoBody
    /\ r = NoPage
    /\ pendErr = None
    /\ dataChan = <<>>
    /\ errChan = <<>>
    /\ dataClosed = FALSE
    /\ errClosed = FALSE
    /\ fetchLog = <<>>
    /\ resultLog = <<>>
    /\ errLog = <<>>
    /\ received = <<>>
    /\ errsRecv = <<>>
    /\ firstRecv = None
    /\ cDone = FALSE
    /\ firstRun = NoRun
    /\ other = NoOther
    /\ post = NoPost
    /\ httpRes = NoRes

\* -------------------------------------------------------------------- date
\* the bytes given to Date.UnmarshalJSON are a sequence of pieces: a double
\* quote, the text of a date written as YYYY-MM-DD (the date may not exist
\* in the calendar), or some other text
Piece(k, ymd) == [k |-> k, ymd |-> ymd]
Quote == Piece("quote", <<0, 0, 0>>)
DateText(ymd) == Piece("date", ymd)
Pieces ==
    {Quote, Piece("Jan 01 2024", <<0, 0, 0>>), Piece("T10:30:00Z", <<0, 0, 0>>)}
    \cup {DateText(ymd) : ymd \in {<<2024, 3, 1>>, <<2024, 2, 29>>,
                                   <<2023, 2, 29>>, <<2024, 13, 1>>}}

\* the inputs of UnmarshalJSON: up to MaxBytes pieces
Inputs == UNION {[1..n -> Pieces] : n \in 0..MaxBytes}

\* the Date values: the zero value, a date, and a date with a time of day
DateValues ==
    {ZeroTime,
     [date |-> <<2024, 3, 1>>, clock |-> <<0, 0, 0>>],
     [date |-> <<2024, 2, 29>>, clock |-> <<10, 30, 0>>]}

\* the error time.Parse returns
ParseError == "parsing time"

Leap(y) == (y % 4 = 0 /\ y % 100 # 0) \/ y % 400 = 0

DaysIn(y, m) ==
    IF m = 2 THEN (IF Leap(y) THEN 29 ELSE 28)
    ELSE IF m \in {4, 6, 9, 11} THEN 30 ELSE 31

\* bytes.Trim(b, "\""): all leading and all trailing double quotes removed
RECURSIVE TrimLeft(_)
TrimLeft(b) ==
    IF b # <<>> /\ Head(b) = Quote THEN TrimLeft(Tail(b)) ELSE b

RECURSIVE TrimRight(_)
TrimRight(b) ==
    IF b # <<>> /\ b[Len(b)] = Quote
    THEN TrimRight(SubSeq(b, 1, Len(b) - 1))
    ELSE b

Trim(b) == TrimRight(TrimLeft(b))

\* time.Parse("2006-01-02", s): s must be the text of one date, with a
\* month and a day that exist, and nothing else; the time of day is zero
ParseDate(s) ==
    IF /\ Len(s) = 1
       /\ s[1].k = "date"
       /\ s[1].ymd[2] \in 1..12
       /\ s[1].ymd[3] \in 1..DaysIn(s[1].ymd[1], s[1].ymd[2])
    THEN [t |-> [date |-> s[1].ymd, clock |-> <<0, 0, 0>>], err |-> {}]
    ELSE [t |-> ZeroTime, err |-> {ParseError}]

\* an UnmarshalJSON that stores what time.Parse returned before testing err
UnmarshalJSON_Clears(d, b) ==
    IF ParseDate(Trim(b)).err # {}
    THEN [d |-> ParseDate(Trim(b)).t,
          err |-> {JsonDecodeError} \cup ParseDate(Trim(b)).err]
    ELSE [d |-> ParseDate(Trim(b)).t, err |-> {}]

\* Date.UnmarshalJSON on the Date d: the value of d afterwards and the error
UnmarshalJSON(d, b) ==
    IF ParseDate(Trim(b)).err # {}
    THEN [d |-> d, err |-> {JsonDecodeError} \cup ParseDate(Trim(b)).err]
    ELSE [d |-> ParseDate(Trim(b)).t, err |-> {}]

\* Date.MarshalJSON: the date formatted as YYYY-MM-DD, within double quotes
MarshalJSON(d) == <<Quote, DateText(FormatDate(d)), Quote>>

\* a call of UnmarshalJSON on a Date with some input, or a call of
\* MarshalJSON on a Date whose output is then unmarshalled into another
DateInit ==
    /\ ac \in {c \in Configs : c.Url = "server"}
    /\ kind = "TimeEntries"
    /\ total = 0
    /\ limit = 0
    /\ faults = 0
    /\ consumer = "once"
    /\ pc \in {"unmarshal", "marshal"}
    /\ page = FirstPage
    /\ url = NoUrl
    /\ IF pc = "unmarshal"
       THEN /\ resp \in [type : {"bytes"}, data : Inputs]
            /\ post = NoPost
       ELSE /\ resp = [type |-> "bytes", data |-> <<>>]
            /\ post \in {[NoPost EXCEPT !.payload.SpentOn = d] :
                             d \in DateValues}
    /\ r \in DateValues
    /\ pendErr = None
    /\ dataChan = <<>>
    /\ errChan = <<>>
    /\ dataClosed = FALSE
    /\ errClosed = FALSE
    /\ fetchLog = <<>>
    /\ resultLog = <<>>
    /\ errLog = <<>>
    /\ received = <<>>
    /\ errsRecv = <<>>
    /\ firstRecv = None
    /\ cDone = FALSE
    /\ firstRun = NoRun
    /\ other = NoOther
    /\ httpRes = NoRes

\* filters for the calls of ApiUrl on its own: two users, two start and two
\* end dates, with and without a time of day
UrlFilters ==
    [UserId : {"1", "2"},
     StartDate : {[date |-> <<2024, 3, 1>>, clock |-> <<0, 0, 0>>],
                  [date |-> <<2024, 2, 1>>, clock |-> <<10, 30, 0>>]},
     EndDate : {[date |-> <<2024, 3, 31>>, clock |-> <<0, 0, 0>>],
                [date |-> <<2024, 4, 30>>, clock |-> <<23, 59, 59>>]}]

\* a call of ApiUrl on its own: any kind, any base URL, any filter, and a
\* page index that is negative, zero or positive
UrlInit ==
    /\ ac \in [Url : BaseUrls, Token : {"secret"}, LogEnabled : {TRUE},
               TimeEntriesFilter : UrlFilters]
    /\ kind \in Entities
    /\ total = 0
    /\ limit = 0
    /\ faults = 0
    /\ consumer = "once"
    /\ pc = "urlCall"
    /\ page \in (0 - MaxVal)..MaxVal
    /\ url = NoUrl
    /\ resp = NoBody
    /\ r = NoPage
    /\ pendErr = None
    /\ dataChan = <<>>
    /\ errChan = <<>>
    /\ dataClosed = FALSE
    /\ errClosed = FALSE
    /\ fetchLog = <<>>
    /\ resultLog = <<>>
    /\ errLog = <<>>
    /\ received = <<>>
    /\ errsRecv = <<>>
    /\ firstRecv = None
    /\ cDone = FALSE
    /\ firstRun = NoRun
    /\ other = NoOther
    /\ post = NoPost
    /\ httpRes = NoRes

\* http_cli.Do has returned a response without error, of any status and
\* with any body
HandleInit ==
    /\ ac \in {c \in Configs : c.Url = "server"}
    /\ kind = "Projects"
    /\ total = 0
    /\ limit = 0
    /\ faults = 0
    /\ consumer = "once"
    /\ pc = "doReturned"
    /\ page = FirstPage
    /\ url = ApiUrl(kind, ac, page).url
    /\ resp = NoBody
    /\ r = NoPage
    /\ pendErr = None
    /\ dataChan = <<>>
    /\ errChan = <<>>
    /\ dataClosed = FALSE
    /\ errClosed = FALSE
    /\ fetchLog = <<1>>
    /\ resultLog = <<>>
    /\ errLog = <<>>
    /\ received = <<>>
    /\ errsRecv = <<>>
    /\ firstRecv = None
    /\ cDone = FALSE
    /\ firstRun = NoRun
    /\ other = NoOther
    /\ post = NoPost
    /\ httpRes \in [status : Statuses, body : Bodies, closes : {0}]

\* a call of DecodeResp on its own, on a stream that nobody has closed
DecodeInit ==
    /\ ac \in {c \in Configs : c.Url = "server"}
    /\ kind \in Entities
    /\ total = 0
    /\ limit = 0
    /\ faults = 0
    /\ consumer = "range"
    /\ pc = "decodeResp"
    /\ page = FirstPage
    /\ url = NoUrl
    /\ resp \in [body : Bodies, closes : {0}]
    /\ r = NilPage
    /\ pendErr = None
    /\ dataChan = <<>>
    /\ errChan = <<>>
    /\ dataClosed = FALSE
    /\ errClosed = FALSE
    /\ fetchLog = <<>>
    /\ resultLog = <<>>
    /\ errLog = <<>>
    /\ received = <<>>
    /\ errsRecv = <<>>
    /\ firstRecv = None
    /\ cDone = FALSE
    /\ firstRun = NoRun
    /\ other = NoOther
    /\ post = NoPost
    /\ httpRes = NoRes

\* -------------------------------------------------------------------- Init
Init ==
    /\ ac \in Configs
    /\ kind \in Entities
    /\ total \in 0..MaxTotal
    /\ limit \in 0..MaxLimit
    /\ faults \in (IF ac.Url = "server" /\ limit >= 1
                   THEN 0..MaxFaults ELSE {0})
    /\ consumer \in Consumers
    /\ pc = "build"
    /\ page = FirstPage
    /\ url = NoUrl
    /\ resp = NoBody
    /\ r = NoPage
    /\ pendErr = None
    /\ dataChan = <<>>
    /\ errChan = <<>>
    /\ dataClosed = FALSE
    /\ errClosed = FALSE
    /\ fetchLog = <<>>
    /\ resultLog = <<>>
    /\ errLog = <<>>
    /\ received = <<>>
    /\ errsRecv = <<>>
    /\ firstRecv = None
    /\ cDone = FALSE
    /\ firstRun = NoRun
    /\ other = NoOther
    /\ post = NoPost
    /\ httpRes = NoRes

\* a call of Pagination.NextPage on its own, on any pagination record
CalcInit ==
    /\ ac \in {c \in Configs : c.Url = "server"}
    /\ kind = "Projects"
    /\ total = 0
    /\ limit = 0
    /\ faults = 0
    /\ consumer = "range"
    /\ pc = "calc"
    /\ page = FirstPage
    /\ url = NoUrl
    /\ resp = NoBody
    /\ r \in [Items : {<<>>}, Offset : (0 - MaxVal)..MaxVal,
               Limit : (0 - MaxVal)..MaxVal, Total : (0 - MaxVal)..MaxVal]
    /\ pendErr = None
    /\ dataChan = <<>>
    /\ errChan = <<>>
    /\ dataClosed = FALSE
    /\ errClosed = FALSE
    /\ fetchLog = <<>>
    /\ resultLog = <<>>
    /\ errLog = <<>>
    /\ received = <<>>
    /\ errsRecv = <<>>
    /\ firstRecv = None
    /\ cDone = FALSE
    /\ firstRun = NoRun
    /\ other = NoOther
    /\ post = NoPost
    /\ httpRes = NoRes

\* ---------------------------------------------------- Scroll: the producer
\* the errors after which Scroll's background task stops
Fatal == {ApiEndpointUrlFatalError, ApiNewRequestFatalError}

\* an error path that returns without running the deferred closes
AfterErr_NoClose(err) == IF err \in Fatal THEN "done" ELSE "build"

\* an error path whose break only leaves the switch: every error continues
AfterErr_Continue(err) == "build"

\* an error path that gives up on a transport failure
AfterErr_StopOnHttp(err) ==
    IF err \in Fatal \cup {HttpError} THEN "closeErr" ELSE "build"

\* where the task goes after it has sent an error on errChan: break / return
\* on a fatal error, continue (same page) otherwise
AfterErr(err) == IF err \in Fatal THEN "closeErr" ELSE "build"

\* a URL build that sends the error of BuildApiUrl as it is
BuildUrl_BareError ==
    /\ pc = "build"
    /\ page > NoNextPage
    /\ LET res == ApiUrl(kind, ac, page)
       IN  IF res.err # "nil"
           THEN /\ pendErr' = res.err
                /\ pc' = "sendErr"
                /\ url' = url
           ELSE /\ url' = res.url
                /\ pc' = "get"
                /\ pendErr' = pendErr
    /\ UNCHANGED <<envVars, faults, page, resp, r, dataChan, errChan,
                   dataClosed, errClosed, fetchLog, resultLog, errLog,
                   consVars>>

\* a URL build that wipes the token of the ApiClient it was given
BuildUrl_ClearsToken ==
    /\ pc = "build"
    /\ ac' = [ac EXCEPT !.Token = ""]
    /\ page > NoNextPage
    /\ LET res == ApiUrl(kind, ac, page)
       IN  IF res.err # "nil"
           THEN /\ pendErr' = ApiEndpointUrlFatalError
                /\ pc' = "sendErr"
                /\ url' = url
           ELSE /\ url' = res.url
                /\ pc' = "get"
                /\ pendErr' = pendErr
    /\ UNCHANGED <<kind, total, limit, consumer, firstRun, other, post, httpRes,
                   faults, page, resp, r, dataChan, errChan,
                   dataClosed, errClosed, fetchLog, resultLog, errLog,
                   consVars>>

\* for page > -1 { api_endpoint_url, err := ApiUrl[E](ac, page) ...
BuildUrl ==
    /\ pc = "build"
    /\ page > NoNextPage
    /\ LET res == ApiUrl(kind, ac, page)
       IN  IF res.err # "nil"
           THEN /\ pendErr' = ApiEndpointUrlFatalError
                /\ pc' = "sendErr"
                /\ url' = url
           ELSE /\ url' = res.url
                /\ pc' = "get"
                /\ pendErr' = pendErr
    /\ UNCHANGED <<envVars, faults, page, resp, r, dataChan, errChan,
                   dataClosed, errClosed, fetchLog, resultLog, errLog,
                   consVars>>

\* the loop condition page > -1 fails: the deferred closes run
LoopExit ==
    /\ pc = "build"
    /\ ~(page > NoNextPage)
    /\ pc' = "closeErr"
    /\ UNCHANGED <<envVars, faults, page, url, resp, r, pendErr, dataChan,
                   errChan, dataClosed, errClosed, fetchLog, resultLog,
                   errLog, consVars>>

\* resp, err := ac.Get(api_endpoint_url)
Get ==
    /\ pc = "get"
    /\ \E o \in Transport(url, total, limit, faults > 0) :
         /\ faults' = IF o.fault THEN faults - 1 ELSE faults
         /\ fetchLog' = Log(fetchLog, IF url.page = 0 THEN 1 ELSE url.page)
         /\ LET g == ClientGet(o)
            IN  IF g.err # "nil"
                THEN /\ pendErr' = g.err
                     /\ pc' = "sendErr"
                     /\ resp' = resp
                     /\ resultLog' = Log(resultLog, g.err)
                ELSE /\ resp' = g.body
                     /\ pc' = "decode"
                     /\ pendErr' = pendErr
                     /\ resultLog' = resultLog
    /\ UNCHANGED <<envVars, page, url, r, dataChan, errChan, dataClosed,
                   errClosed, errLog, consVars>>

\* r, err := DecodeResp[E](resp)
Decode ==
    /\ pc = "decode"
    /\ LET d == DecodeResp(resp)
       IN  /\ resultLog' = Log(resultLog, IF d.err # "nil" THEN d.err ELSE "ok")
           /\ IF d.err # "nil"
              THEN /\ pendErr' = d.err
                   /\ pc' = "sendErr"
                   /\ r' = r
              ELSE /\ r' = d.page
                   /\ pc' = "sendData"
                   /\ pendErr' = pendErr
    /\ resp' = NoBody
    /\ UNCHANGED <<envVars, faults, page, url, dataChan, errChan, dataClosed,
                   errClosed, fetchLog, errLog, consVars>>

\* an error channel with room for one error more
SendErr_Wide ==
    /\ pc = "sendErr"
    /\ Len(errChan) < ChanCap + 1
    /\ errChan' = Append(errChan, pendErr)
    /\ errLog' = Log(errLog, pendErr)
    /\ pc' = AfterErr(pendErr)
    /\ pendErr' = None
    /\ UNCHANGED <<envVars, faults, page, url, resp, r, dataChan, dataClosed,
                   errClosed, fetchLog, resultLog, consVars>>

\* a send that does not wait for room in errChan and drops the error
SendErr_Drop ==
    /\ pc = "sendErr"
    /\ errChan' = IF Len(errChan) < ChanCap
                  THEN Append(errChan, pendErr) ELSE errChan
    /\ errLog' = IF Len(errChan) < ChanCap THEN Log(errLog, pendErr) ELSE errLog
    /\ pc' = AfterErr(pendErr)
    /\ pendErr' = None
    /\ UNCHANGED <<envVars, faults, page, url, resp, r, dataChan, dataClosed,
                   errClosed, fetchLog, resultLog, consVars>>

\* errChan <- err, then break / return / continue
SendErr ==
    /\ pc = "sendErr"
    /\ Len(errChan) < ChanCap
    /\ errChan' = Append(errChan, pendErr)
    /\ errLog' = Log(errLog, pendErr)
    /\ pc' = AfterErr(pendErr)
    /\ pendErr' = None
    /\ UNCHANGED <<envVars, faults, page, url, resp, r, dataChan, dataClosed,
                   errClosed, fetchLog, resultLog, consVars>>

\* a data channel with room for one page more
SendData_Wide ==
    /\ pc = "sendData"
    /\ Len(dataChan) < ChanCap + 1
    /\ dataChan' = Append(dataChan, r)
    /\ page' = NextPage(r)
    /\ pc' = "build"
    /\ r' = NoPage
    /\ UNCHANGED <<envVars, faults, url, resp, pendErr, errChan, dataClosed,
                   errClosed, fetchLog, resultLog, errLog, consVars>>

\* a send that does not wait for room in dataChan and drops the page
SendData_Drop ==
    /\ pc = "sendData"
    /\ dataChan' = IF Len(dataChan) < ChanCap
                   THEN Append(dataChan, r) ELSE dataChan
    /\ page' = NextPage(r)
    /\ pc' = "build"
    /\ r' = NoPage
    /\ UNCHANGED <<envVars, faults, url, resp, pendErr, errChan, dataClosed,
                   errClosed, fetchLog, resultLog, errLog, consVars>>

\* dataChan <- *r; page = extractNextPage[E](*r)
SendData ==
    /\ pc = "sendData"
    /\ Len(dataChan) < ChanCap
    /\ dataChan' = Append(dataChan, r)
    /\ page' = NextPage(r)
    /\ pc' = "build"
    /\ r' = NoPage
    /\ UNCHANGED <<envVars, faults, url, resp, pendErr, errChan, dataClosed,
                   errClosed, fetchLog, resultLog, errLog, consVars>>

\* the deferred calls run in the order they were registered: the data
\* channel is closed first
CloseErr_DataFirst ==
    /\ pc = "closeErr"
    /\ dataClosed' = TRUE
    /\ pc' = "closeData"
    /\ UNCHANGED <<envVars, faults, page, url, resp, r, pendErr, dataChan,
                   errChan, errClosed, fetchLog, resultLog, errLog,
                   consVars>>

\* defer close(errChan): deferred last, so it runs first
CloseErr ==
    /\ pc = "closeErr"
    /\ errClosed' = TRUE
    /\ pc' = "closeData"
    /\ UNCHANGED <<envVars, faults, page, url, resp, r, pendErr, dataChan,
                   errChan, dataClosed, fetchLog, resultLog, errLog,
                   consVars>>

\* a task that goes round the loop again after it has closed both channels
CloseData_Resumes ==
    /\ pc = "closeData"
    /\ dataClosed' = TRUE
    /\ pc' = "build"
    /\ UNCHANGED <<envVars, faults, page, url, resp, r, pendErr, dataChan,
                   errChan, errClosed, fetchLog, resultLog, errLog,
                   consVars>>

\* defer close(dataChan)
CloseData ==
    /\ pc = "closeData"
    /\ dataClosed' = TRUE
    /\ pc' = "done"
    /\ UNCHANGED <<envVars, faults, page, url, resp, r, pendErr, dataChan,
                   errChan, errClosed, fetchLog, resultLog, errLog,
                   consVars>>

Producer ==
    \/ BuildUrl
    \/ LoopExit
    \/ Get
    \/ Decode
    \/ SendErr
    \/ SendData
    \/ CloseErr
    \/ CloseData

\* ------------------------------------------------------------ the consumer
First(ev) == IF firstRecv = None THEN ev ELSE firstRecv

\* the caller has returned and receives no more: it saw the data channel
\* closed, or it was the single select of an error test
Stopped == cDone \/ (consumer = "once" /\ firstRecv # None)

\* x, ok := <-dataChan with a page in the buffer
RecvData ==
    /\ ~Stopped
    /\ dataChan # <<>>
    /\ received' = received \o Head(dataChan).Items
    /\ dataChan' = Tail(dataChan)
    /\ firstRecv' = First("data")
    /\ UNCHANGED <<envVars, faults, prodVars, errChan, dataClosed, errClosed,
                   fetchLog, resultLog, errLog, errsRecv, cDone>>

\* x, ok := <-dataChan on the closed and drained channel: the zero value;
\* the range loop ends, the README loop returns
RecvDataClosed ==
    /\ ~Stopped
    /\ dataChan = <<>>
    /\ dataClosed
    /\ cDone' = TRUE
    /\ firstRecv' = First("dataClosed")
    /\ UNCHANGED <<envVars, faults, prodVars, dataChan, errChan, dataClosed,
                   errClosed, fetchLog, resultLog, errLog, received,
                   errsRecv>>

\* err, ok := <-errChan with an error in the buffer
RecvErr ==
    /\ ~Stopped
    /\ consumer \in {"select", "once"}
    /\ errChan # <<>>
    /\ errsRecv' = Log(errsRecv, Head(errChan))
    /\ errChan' = Tail(errChan)
    /\ firstRecv' = First(Head(errChan))
    /\ UNCHANGED <<envVars, faults, prodVars, dataChan, dataClosed,
                   errClosed, fetchLog, resultLog, errLog, received, cDone>>

\* err, ok := <-errChan on the closed and drained channel: ok is false and
\* the README loop goes round again
RecvErrClosed ==
    /\ ~Stopped
    /\ consumer \in {"select", "once"}
    /\ errChan = <<>>
    /\ errClosed
    /\ firstRecv = None
    /\ firstRecv' = "errClosed"
    /\ UNCHANGED <<envVars, faults, prodVars, dataChan, errChan, dataClosed,
                   errClosed, fetchLog, resultLog, errLog, received,
                   errsRecv, cDone>>

Consumer ==
    \/ RecvData
    \/ RecvDataClosed
    \/ RecvErr
    \/ RecvErrClosed

Next == Producer \/ Consumer

\* n := p.NextPage()
Calc ==
    /\ pc = "calc"
    /\ IF DivisionFault(r)
       THEN pc' = "panic" /\ page' = page
       ELSE pc' = "calcDone" /\ page' = NextPage(r)
    /\ UNCHANGED <<envVars, faults, url, resp, r, pendErr, dataChan, errChan,
                   dataClosed, errClosed, fetchLog, resultLog, errLog,
                   consVars>>

Spec == Init /\ [][Next]_vars

\* the Go scheduler runs every runnable goroutine, and a select whose case
\* stays ready takes it eventually
FairSpec ==
    /\ Spec
    /\ WF_vars(Producer)
    /\ WF_vars(RecvData)
    /\ WF_vars(RecvDataClosed)
    /\ WF_vars(RecvErr)

\* a second call of Scroll that keeps the page index of the first
Restart_KeepPage ==
    /\ ~firstRun.done
    /\ pc = "done"
    /\ cDone
    /\ firstRun' = [done |-> TRUE, items |-> received,
                    clean |-> errLog = <<>> /\ errsRecv = <<>>]
    /\ pc' = "build"
    /\ page' = page
    /\ url' = NoUrl
    /\ resp' = NoBody
    /\ r' = NoPage
    /\ pendErr' = None
    /\ dataChan' = <<>>
    /\ errChan' = <<>>
    /\ dataClosed' = FALSE
    /\ errClosed' = FALSE
    /\ fetchLog' = <<>>
    /\ resultLog' = <<>>
    /\ errLog' = <<>>
    /\ received' = <<>>
    /\ errsRecv' = <<>>
    /\ firstRecv' = None
    /\ cDone' = FALSE
    /\ UNCHANGED <<ac, kind, total, limit, consumer, faults, other, post,
                   httpRes>>

\* after a scroll has ended and its caller has returned, Scroll is called
\* again with the same ApiClient and entity kind: page := 1 and two new
\* channels; what the first call delivered is kept for comparison
Restart ==
    /\ ~firstRun.done
    /\ pc = "done"
    /\ cDone
    /\ firstRun' = [done |-> TRUE, items |-> received,
                    clean |-> errLog = <<>> /\ errsRecv = <<>>]
    /\ pc' = "build"
    /\ page' = FirstPage
    /\ url' = NoUrl
    /\ resp' = NoBody
    /\ r' = NoPage
    /\ pendErr' = None
    /\ dataChan' = <<>>
    /\ errChan' = <<>>
    /\ dataClosed' = FALSE
    /\ errClosed' = FALSE
    /\ fetchLog' = <<>>
    /\ resultLog' = <<>>
    /\ errLog' = <<>>
    /\ received' = <<>>
    /\ errsRecv' = <<>>
    /\ firstRecv' = None
    /\ cDone' = FALSE
    /\ UNCHANGED <<ac, kind, total, limit, consumer, faults, other, post,
                   httpRes>>

\* two scroll operations, one after the other
TwiceSpec == Init /\ [][Next \/ Restart]_vars

\* two calls of Scroll with the same ApiClient, for projects and for issues,
\* over the same source; failed attempts come from the base URLs that fail,
\* no transient fault is injected
ConcInit ==
    /\ ac \in Configs
    /\ total \in 0..MaxTotal
    /\ limit \in 0..MaxLimit
    /\ faults = 0
    /\ kind = "Projects"
    /\ consumer = "range"
    /\ pc = "build"
    /\ page = FirstPage
    /\ url = NoUrl
    /\ resp = NoBody
    /\ r = NoPage
    /\ pendErr = None
    /\ dataChan = <<>>
    /\ errChan = <<>>
    /\ dataClosed = FALSE
    /\ errClosed = FALSE
    /\ fetchLog = <<>>
    /\ resultLog = <<>>
    /\ errLog = <<>>
    /\ received = <<>>
    /\ errsRecv = <<>>
    /\ firstRecv = None
    /\ cDone = FALSE
    /\ firstRun = NoRun
    /\ other = Started("Issues", "select")
    /\ post = NoPost
    /\ httpRes = NoRes

\* the scroll operation whose goroutines are running now
Running ==
    [kind |-> kind, consumer |-> consumer, pc |-> pc, page |-> page,
     url |-> url, resp |-> resp, r |-> r, pendErr |-> pendErr,
     dataChan |-> dataChan, errChan |-> errChan, dataClosed |-> dataClosed,
     errClosed |-> errClosed, fetchLog |-> fetchLog,
     resultLog |-> resultLog, errLog |-> errLog, received |-> received,
     errsRecv |-> errsRecv, firstRecv |-> firstRecv, cDone |-> cDone]

\* a Scroll whose page index is a package-level variable, shared by all
\* scroll operations
Switch_SharedPage ==
    /\ other' = Running
    /\ kind' = other.kind
    /\ consumer' = other.consumer
    /\ pc' = other.pc
    /\ page' = page
    /\ url' = other.url
    /\ resp' = other.resp
    /\ r' = other.r
    /\ pendErr' = other.pendErr
    /\ dataChan' = other.dataChan
    /\ errChan' = other.errChan
    /\ dataClosed' = other.dataClosed
    /\ errClosed' = other.errClosed
    /\ fetchLog' = other.fetchLog
    /\ resultLog' = other.resultLog
    /\ errLog' = other.errLog
    /\ received' = other.received
    /\ errsRecv' = other.errsRecv
    /\ firstRecv' = other.firstRecv
    /\ cDone' = other.cDone
    /\ UNCHANGED <<ac, total, limit, faults, firstRun, post, httpRes>>

\* the scheduler turns to the goroutines of the other scroll operation:
\* page, the two channels and everything derived from them are locals of
\* each call of Scroll; the ApiClient and the source are common to both
Switch ==
    /\ other' = Running
    /\ kind' = other.kind
    /\ consumer' = other.consumer
    /\ pc' = other.pc
    /\ page' = other.page
    /\ url' = other.url
    /\ resp' = other.resp
    /\ r' = other.r
    /\ pendErr' = other.pendErr
    /\ dataChan' = other.dataChan
    /\ errChan' = other.errChan
    /\ dataClosed' = other.dataClosed
    /\ errClosed' = other.errClosed
    /\ fetchLog' = other.fetchLog
    /\ resultLog' = other.resultLog
    /\ errLog' = other.errLog
    /\ received' = other.received
    /\ errsRecv' = other.errsRecv
    /\ firstRecv' = other.firstRecv
    /\ cDone' = other.cDone
    /\ UNCHANGED <<ac, total, limit, faults, firstRun, post, httpRes>>

\* two scroll operations running concurrently
ConcSpec == ConcInit /\ [][Next \/ Switch]_vars

\* a DecodeResp whose body.Close() is not deferred but is the last
\* statement of the successful path
DecodeCall_CloseOnSuccess ==
    /\ pc = "decodeResp"
    /\ LET d == DecodeResp(resp.body)
       IN  /\ r' = d.page
           /\ pendErr' = d.err
           /\ resp' = IF d.err = "nil"
                      THEN [resp EXCEPT !.closes = @ + 1] ELSE resp
    /\ pc' = "decodeDone"
    /\ UNCHANGED <<envVars, faults, page, url, dataChan, errChan, dataClosed,
                   errClosed, fetchLog, resultLog, errLog, consVars>>

\* r, err := DecodeResp[E](body): the result, and the deferred body.Close()
\* that runs on the way out
DecodeCall ==
    /\ pc = "decodeResp"
    /\ LET d == DecodeResp(resp.body)
       IN  /\ r' = d.page
           /\ pendErr' = d.err
    /\ resp' = [resp EXCEPT !.closes = @ + 1]
    /\ pc' = "decodeDone"
    /\ UNCHANGED <<envVars, faults, page, url, dataChan, errChan, dataClosed,
                   errClosed, fetchLog, resultLog, errLog, consVars>>

\* DecodeResp called on its own
DecodeSpec == DecodeInit /\ [][DecodeCall]_vars

\* time.Time.IsZero, promoted to Date
IsZero(t) == t = ZeroTime

\* CreateTimeEntryPayload.Validate
Validate(p) ==
    IF IsZero(p.SpentOn)
    THEN {ValidationError, ZeroTimeDetectedError}
    ELSE IF p.ProjectID > 0 /\ p.IssueID > 0
    THEN {ValidationError, ProjectAndIssuePassedError}
    ELSE IF p.ProjectID = 0 /\ p.IssueID = 0
    THEN {ValidationError, ProjectAndIssueMissedError}
    ELSE {}

\* a call of Validate on its own, on any payload
ValidateInit ==
    /\ ac \in {c \in Configs : c.Url = "server"}
    /\ kind = "TimeEntries"
    /\ total = 0
    /\ limit = 0
    /\ faults = 0
    /\ consumer = "range"
    /\ pc = "validate"
    /\ page = FirstPage
    /\ url = NoUrl
    /\ resp = NoBody
    /\ r = NoPage
    /\ pendErr = None
    /\ dataChan = <<>>
    /\ errChan = <<>>
    /\ dataClosed = FALSE
    /\ errClosed = FALSE
    /\ fetchLog = <<>>
    /\ resultLog = <<>>
    /\ errLog = <<>>
    /\ received = <<>>
    /\ errsRecv = <<>>
    /\ firstRecv = None
    /\ cDone = FALSE
    /\ firstRun = NoRun
    /\ other = NoOther
    /\ post \in [payload : [ProjectID : (0 - MaxId)..MaxId,
                            IssueID : (0 - MaxId)..MaxId,
                            SpentOn : {ZeroTime,
                                       [date |-> <<2024, 3, 1>>,
                                        clock |-> <<0, 0, 0>>]}],
                 err : {{}}, code : {0}, msg : {NoBody}]
    /\ httpRes = NoRes

\* err := params.Validate()
ValidateCall ==
    /\ pc = "validate"
    /\ post' = [post EXCEPT !.err = Validate(post.payload)]
    /\ pc' = "validated"
    /\ UNCHANGED <<ac, kind, total, limit, consumer, firstRun, other, httpRes,
                   faults, page, url, resp, r, pendErr, dataChan, errChan,
                   dataClosed, errClosed, fetchLog, resultLog, errLog,
                   consVars>>

\* CreateTimeEntryPayload.Validate called on its own
ValidateSpec == ValidateInit /\ [][ValidateCall]_vars

\* the tail of ApiClient.Get after http_cli.Do returned res without error:
\* return res.Body, nil; Scroll's test of err
GetReturn ==
    /\ pc = "doReturned"
    /\ LET g == ClientGet([fault |-> FALSE, ok |-> TRUE,
                           status |-> httpRes.status, body |-> httpRes.body])
       IN  IF g.err # "nil"
           THEN /\ pendErr' = g.err
                /\ pc' = "sendErr"
                /\ resp' = resp
                /\ resultLog' = Log(resultLog, g.err)
           ELSE /\ resp' = g.body
                /\ pc' = "decode"
                /\ pendErr' = pendErr
                /\ resultLog' = resultLog
    /\ UNCHANGED <<envVars, faults, page, url, r, dataChan, errChan,
                   dataClosed, errClosed, fetchLog, errLog, consVars>>

\* one response of any status, from the return of Get to the decoder
HandleSpec == HandleInit /\ [][GetReturn \/ Decode]_vars

\* api_endpoint_url, err := ApiUrl[E](ac, page), called on its own
UrlCall ==
    /\ pc = "urlCall"
    /\ LET res == ApiUrl(kind, ac, page)
       IN  /\ url' = res.url
           /\ pendErr' = res.err
    /\ pc' = "urlDone"
    /\ UNCHANGED <<envVars, faults, page, resp, r, dataChan, errChan,
                   dataClosed, errClosed, fetchLog, resultLog, errLog,
                   consVars>>

UrlSpec == UrlInit /\ [][UrlCall]_vars

\* ApiClient.Post, and Create's return of its error: http.NewRequest fails
\* on a malformed URL, http_cli.Do may fail, otherwise the status code and
\* the body of the response are returned
PostCall ==
    /\ pc = "post"
    /\ IF url.base = "malformed"
       THEN /\ post' = [post EXCEPT !.err = {ApiNewRequestFatalError}]
            /\ pc' = "created"
            /\ httpRes' = httpRes
       ELSE \E o \in PostTransport(url) :
               IF ~o.ok
               THEN /\ post' = [post EXCEPT !.err = {HttpError}]
                    /\ pc' = "created"
                    /\ httpRes' = httpRes
               ELSE /\ httpRes' = [status |-> o.status, body |-> o.body,
                                   closes |-> 0]
                    /\ pc' = "postReturned"
                    /\ post' = post
    /\ UNCHANGED <<ac, kind, total, limit, consumer, firstRun, other, faults,
                   page, url, resp, r, pendErr, dataChan, errChan,
                   dataClosed, errClosed, fetchLog, resultLog, errLog,
                   consVars>>

\* ApiClient.Create: the test of rcode and the return; rbody is read on the
\* path of a status other than 201 and closed on neither path
CreateCheck ==
    /\ pc = "postReturned"
    /\ LET c == CreateResult(httpRes.status, httpRes.body)
       IN  post' = [post EXCEPT !.err = c.err, !.code = c.code,
                                !.msg = c.msg]
    /\ pc' = "created"
    /\ UNCHANGED <<ac, kind, total, limit, consumer, firstRun, other, httpRes,
                   faults, page, url, resp, r, pendErr, dataChan, errChan,
                   dataClosed, errClosed, fetchLog, resultLog, errLog,
                   consVars>>

\* one call of ApiClient.Create
CreateSpec == CreateInit /\ [][PostCall \/ CreateCheck]_vars

\* b, _ := post.payload.SpentOn.MarshalJSON()
MarshalCall ==
    /\ pc = "marshal"
    /\ resp' = [resp EXCEPT !.data = MarshalJSON(post.payload.SpentOn)]
    /\ pc' = "marshalled"
    /\ UNCHANGED <<envVars, faults, page, url, r, pendErr, dataChan, errChan,
                   dataClosed, errClosed, fetchLog, resultLog, errLog,
                   consVars>>

\* err := r.UnmarshalJSON(b), on an input or on the output of MarshalJSON
UnmarshalCall ==
    /\ pc \in {"unmarshal", "marshalled"}
    /\ LET u == UnmarshalJSON(r, resp.data)
       IN  /\ r' = u.d
           /\ post' = [post EXCEPT !.err = u.err]
    /\ pc' = IF pc = "unmarshal" THEN "unmarshalled" ELSE "roundTrip"
    /\ UNCHANGED <<ac, kind, total, limit, consumer, firstRun, other, httpRes,
                   faults, page, url, resp, pendErr, dataChan, errChan,
                   dataClosed, errClosed, fetchLog, resultLog, errLog,
                   consVars>>

\* Date.UnmarshalJSON and Date.MarshalJSON called on their own
DateSpec == DateInit /\ [][MarshalCall \/ UnmarshalCall]_vars

\* Pagination.NextPage called on its own
CalcSpec == CalcInit /\ [][Calc]_vars

\* scroll operations and calls of Pagination.NextPage on its own
PagingSpec == (Init \/ CalcInit) /\ [][Next \/ Calc]_vars

TypeOK ==
    /\ pc \in {"build", "get", "decode", "sendErr", "sendData", "closeErr",
               "closeData", "done"}
    /\ page \in NoNextPage..(MaxTotal + 2)
    /\ Len(dataChan) <= ChanCap
    /\ Len(errChan) <= ChanCap
    /\ faults \in 0..MaxFaults

\* ================================================================== claims
Closing == {"closeErr", "closeData", "done"}

Ceil(a, b) == (a + b - 1) \div b

\* every HTTP attempt made so far succeeded and decoded
ErrorFree == \A i \in 1..Len(resultLog) : resultLog[i] = "ok"

\* a scroll over the test server with at least one item and a positive page
\* size
StableSource == ac.Url = "server" /\ total >= 1 /\ limit >= 1

\* a consumer that keeps receiving from the data channel until it is closed
Drains == consumer \in {"select", "range"}

\* the start of a scroll over a stable source that no fault will hit, read
\* by a consumer that drains the data channel
StableStart ==
    StableSource /\ Drains /\ faults = 0 /\ pc = "build" /\ fetchLog = <<>>

\* C1 (as stated): over a stable source with T >= 1 items and page size
\* L >= 1, once the consumer has seen the data channel closed, exactly
\* ceil(T/L) fetches were made, for pages 1, 2, ... (offsets 0, L, 2L, ...),
\* and exactly the T items were delivered in ascending order.
C1_CeilFetches ==
    (StableSource /\ ErrorFree /\ cDone) =>
        /\ fetchLog = Iter(1, Ceil(total, limit))
        /\ received = Iter(1, total)

\* C1 (amended): over a stable source with T >= 1 items and page size
\* L >= 1 and a consumer that drains the data channel, the data channel is
\* eventually seen closed, and by then exactly T \div L + 1 fetches were
\* made, for pages 1 .. T \div L + 1 (one more than ceil(T/L) when L divides
\* T: a last, empty page), and exactly the T items were delivered in
\* ascending order.
C1_ScrollDelivers ==
    /\ [](  (StableSource /\ ErrorFree /\ cDone) =>
              /\ fetchLog = Iter(1, total \div limit + 1)
              /\ received = Iter(1, total)
              /\ dataClosed /\ dataChan = <<>>)
    /\ (StableStart ~> cDone)

\* C1 witness: a scroll of a collection whose size is a multiple of the page
\* size has ended after the extra fetch
C1_Witness ==
    /\ StableSource /\ ErrorFree /\ cDone
    /\ total = 2 /\ limit = 1
    /\ fetchLog = <<1, 2, 3>>
    /\ received = <<1, 2>>

\* C2: in every reachable state the items the consumer has received, and
\* those followed by the page waiting in the data channel, are a prefix of
\* the source sequence 1..T: nothing is duplicated, skipped or reordered,
\* also when failed attempts were reported and retried in between.
C2_ReceivedIsPrefix ==
    /\ IsPrefix(received, Iter(1, total))
    /\ dataChan # <<>> =>
          IsPrefix(received \o Head(dataChan).Items, Iter(1, total))

\* C2 witness: a failed attempt was reported and the whole of a collection
\* of several pages was received afterwards
C2_Witness ==
    /\ ac.Url = "server" /\ limit = 1 /\ total >= 2
    /\ errLog # <<>>
    /\ received = Iter(1, total)

\* a source that reports a positive page size whenever it answers
PositiveLimit == ac.Url = "server" => limit >= 1

\* C3 (as stated): for a consumer that keeps receiving from both channels,
\* both channels are eventually closed, whatever the transport does: also
\* with a persistently unreachable host or a persistently undecodable
\* response (the source is taken to report a positive page size).
C3_BothEventuallyClosed ==
    (consumer = "select" /\ PositiveLimit) ~> (dataClosed /\ errClosed)

\* C4: whenever Scroll's background task has stopped, on whichever exit
\* path, both the data channel and the error channel are closed.
C4_ExitClosesBoth == (pc = "done") => (dataClosed /\ errClosed)

\* C4 witness: the task has stopped after the fatal URL error
C4_Witness ==
    pc = "done" /\ errLog = <<ApiEndpointUrlFatalError>> /\ fetchLog = <<>>

\* C5: with a base URL that cannot be built into an endpoint URL, Scroll
\* sends exactly one ApiEndpointUrlFatalError, never attempts a fetch, and
\* both channels are then closed (without the help of any consumer).
C5_MalformedUrlIsFatal ==
    /\ [](ac.Url = "malformed" =>
            /\ fetchLog = <<>>
            /\ pc \in {"build", "sendErr"} \cup Closing
            /\ errLog \in {<<>>, <<ApiEndpointUrlFatalError>>}
            /\ pc \in Closing => errLog = <<ApiEndpointUrlFatalError>>
            /\ pc = "done" => (dataClosed /\ errClosed))
    /\ (ac.Url = "malformed") ~> (pc = "done" /\ dataClosed /\ errClosed)

\* C5 witness: the fatal error was sent and received, no fetch was made and
\* both channels are closed
C5_Witness ==
    /\ ac.Url = "malformed" /\ pc = "done"
    /\ errsRecv = <<ApiEndpointUrlFatalError>>
    /\ fetchLog = <<>>
    /\ dataClosed /\ errClosed

\* C6 (as stated): with a malformed base URL and a consumer that selects on
\* both channels, the first receive that succeeds is the
\* ApiEndpointUrlFatalError: no receive on the data channel succeeds before.
C6_FatalErrorFirst ==
    (ac.Url = "malformed" /\ consumer = "select") =>
        firstRecv \in {None, ApiEndpointUrlFatalError}

\* C7: with a host that is unreachable on every attempt, every error sent
\* on the error channel is an HttpError and no receive on the data channel
\* can succeed: it holds no page and is never closed.
C7_UnreachableHost ==
    ac.Url = "sd://sdsdsd" =>
        /\ \A i \in 1..Len(errLog) : errLog[i] = HttpError
        /\ \A i \in 1..Len(errChan) : errChan[i] = HttpError
        /\ \A i \in 1..Len(errsRecv) : errsRecv[i] = HttpError
        /\ dataChan = <<>> /\ ~dataClosed
        /\ received = <<>> /\ ~cDone
        /\ firstRecv \in {None, HttpError}

\* C7 witness: two attempts have failed and their HttpErrors were received
C7_Witness ==
    /\ ac.Url = "sd://sdsdsd"
    /\ errsRecv = <<HttpError, HttpError>>
    /\ Len(fetchLog) >= 2

\* a fetch whose error has not been sent yet
InFlight == IF pc \in {"decode", "sendErr"} THEN 1 ELSE 0

\* C8: when every fetch returns a 404 whose body does not decode, every
\* attempt yields exactly one JsonDecodeError on the error channel and
\* nothing on the data channel, every attempt asks for the first page, the
\* engine never terminates, and while the consumer reads the errors it
\* fetches again and again.
C8_NotFoundRetriesForever ==
    /\ [](ac.Url = "server/not-found" =>
            /\ \A i \in 1..Len(errLog) : errLog[i] = JsonDecodeError
            /\ \A i \in 1..Len(fetchLog) : fetchLog[i] = FirstPage
            /\ Len(fetchLog) < MaxLog =>
                  Len(errLog) + InFlight = Len(fetchLog)
            /\ page = FirstPage
            /\ dataChan = <<>> /\ received = <<>> /\ ~dataClosed
            /\ pc \notin Closing)
    /\ (ac.Url = "server/not-found" /\ consumer = "select")
          => []<>(pc = "get")

\* C8 witness: the third attempt for the first page is under way after two
\* JsonDecodeErrors were received
C8_Witness ==
    /\ ac.Url = "server/not-found"
    /\ errsRecv = <<JsonDecodeError, JsonDecodeError>>
    /\ fetchLog = <<1, 1, 1>>

NonFatal == {HttpError, JsonDecodeError, IoReadError}

\* C9: the attempt that follows an attempt failed with HttpError,
\* JsonDecodeError or IoReadError asks for the same page, and the task never
\* terminates after such an error: when it terminates, either the
\* ApiEndpointUrlFatalError was sent or the last attempt succeeded.
C9_NonFatalRetriesSamePage ==
    /\ \A i \in 1..Len(resultLog) :
          (resultLog[i] \in NonFatal /\ i < Len(fetchLog))
              => fetchLog[i + 1] = fetchLog[i]
    /\ pc \in Closing =>
          \/ resultLog = <<>> /\ errLog = <<ApiEndpointUrlFatalError>>
          \/ /\ resultLog # <<>>
             /\ resultLog[Len(resultLog)] = "ok"
             /\ \A i \in 1..Len(errLog) : errLog[i] \in NonFatal

\* C9 witness: an attempt for page 2 failed with a non-fatal error, page 2
\* was requested again and the scroll went on to its end
C9_Witness ==
    /\ pc = "done"
    /\ \E i \in 1..Len(resultLog) :
          /\ resultLog[i] \in NonFatal
          /\ i < Len(fetchLog)
          /\ fetchLog[i] = 2 /\ fetchLog[i + 1] = 2

IsFailure(x) == x # "ok"

\* the failed attempts so far, in order: the URL build, then the fetches and
\* decodes
Failures ==
    (IF ac.Url = "malformed" /\ pc # "build"
     THEN <<ApiEndpointUrlFatalError>> ELSE <<>>)
    \o SelectSeq(resultLog, IsFailure)

\* C10: the errors sent on the error channel are exactly the failed
\* URL-build, fetch and decode attempts, one error each and in order; the
\* only failure not yet sent is the one the task is about to send, so it
\* neither fetches again nor terminates before sending it.
C10_EveryFailureReported ==
    Len(resultLog) < MaxLog =>
        IF pc = "sendErr"
        THEN Failures = errLog \o <<pendErr>>
        ELSE Failures = errLog

\* C10 witness: one error sits unread in the error channel and the task
\* waits to send the next one instead of dropping it
C10_Witness ==
    /\ pc = "sendErr"
    /\ Len(errChan) = ChanCap
    /\ Len(errLog) = 1
    /\ Len(Failures) = 2

\* the items of the page the source serves for page index p
PageItems(p) ==
    GenerateJSON(GetResponseParamsFromUrl([page |-> p], total, limit)).Items

\* the items of the pages decoded so far, in the order they were decoded
DecodedItems ==
    Flatten([i \in 1..Len(resultLog) |->
                IF resultLog[i] = "ok" THEN PageItems(fetchLog[i]) ELSE <<>>])

\* the items of the pages sent but not yet received, and of the page that
\* is about to be sent
Undelivered ==
    Flatten([i \in 1..Len(dataChan) |-> dataChan[i].Items])
    \o (IF pc = "sendData" THEN r.Items ELSE <<>>)

\* C11: no decoded page is ever lost: at every moment the items received
\* followed by those still waiting in the data channel are the items of all
\* pages decoded so far, also after the error paths and the closing of the
\* channels; and once the task ends, a consumer that drains the data channel
\* ends up with all of them.
C11_NoDecodedPageLost ==
    /\ [](Len(resultLog) < MaxLog => received \o Undelivered = DecodedItems)
    /\ (Drains /\ pc = "done") ~> (cDone /\ received = DecodedItems)

\* C11 witness: the data channel was closed while the last decoded page was
\* still waiting in it
C11_Witness ==
    /\ pc = "done" /\ dataClosed
    /\ dataChan # <<>> /\ Head(dataChan).Items # <<>>
    /\ received \o Head(dataChan).Items = Iter(1, total)
    /\ errLog # <<>>

\* the decoded pages the consumer has not received yet: those waiting in
\* the data channel and the one about to be sent
WaitingPages == Len(dataChan) + (IF pc = "sendData" THEN 1 ELSE 0)

\* the step that issues a request
FetchStarts == fetchLog' # fetchLog

NoErrReader == consumer = "range"

\* attempt i failed, and an earlier attempt had failed already
LaterFailure(i) ==
    /\ IsFailure(resultLog[i])
    /\ \E j \in 1..(i - 1) : IsFailure(resultLog[j])

\* the task is suspended in the send of the error of attempt i, its last
\* attempt
StalledAt(i) ==
    /\ pc = "sendErr"
    /\ pendErr = resultLog[i]
    /\ Len(fetchLog) = i

Abandoned ==
    /\ consumer = "once" /\ firstRecv = "data"
    /\ ac.Url = "server" /\ received # Iter(1, total)

\* the items the caller has not received
Remaining == total - Len(received)

\* the task is suspended in a send on the full data channel
BlockedOnData == pc = "sendData" /\ Len(dataChan) = ChanCap

Returned == pc = "calcDone"

\* q is the quotient of n by d > 0 in integer division: the remainder is
\* smaller than d in absolute value and has the sign of n
IsQuotient(q, n, d) ==
    LET rem == n - q * d
    IN  /\ Abs(rem) < d
        /\ n >= 0 => rem >= 0
        /\ n <= 0 => rem <= 0

\* C15: for limit > 0 and total - offset >= limit, NextPage returns
\* (offset + limit) / limit + 1 in integer division.
C15_NextPageFormula ==
    (Returned /\ r.Limit > 0 /\ r.Total - r.Offset >= r.Limit) =>
        IsQuotient(page - 1, r.Offset + r.Limit, r.Limit)

\* C15 witness: offset 1, limit 1, total 3: the call returned
\* (1 + 1) / 1 + 1 = 3
C15_Witness ==
    /\ Returned
    /\ r.Offset = 1 /\ r.Limit = 1 /\ r.Total = 3
    /\ page = 3

\* the pagination record of the page the source serves for page index p
ServedPage(p) ==
    GenerateJSON(GetResponseParamsFromUrl([page |-> p], total, limit))

\* total - offset < limit
NotFull(p) == p.Total - p.Offset < p.Limit

\* attempt i decoded a page for which total - offset < limit
DecodedNotFull(i) == resultLog[i] = "ok" /\ NotFull(ServedPage(fetchLog[i]))

\* C16: whenever total - offset < limit, NextPage returns the terminal
\* value -1; and after a scroll has decoded such a page it issues no further
\* request: the page is sent, the loop ends and the channels are closed.
C16_NotFullPageIsLast ==
    /\ (Returned /\ NotFull(r)) => page = NoNextPage
    /\ \A i \in 1..Len(resultLog) :
          DecodedNotFull(i) =>
              /\ Len(fetchLog) = i
              /\ pc \in {"sendData", "build"} \cup Closing
              /\ pc # "sendData" => page = NoNextPage

\* C16 witness: the second page a scroll decoded was not full, and the
\* scroll ended after two requests
C16_Witness ==
    /\ pc = "done"
    /\ fetchLog = <<1, 2>>
    /\ DecodedNotFull(2) /\ ~DecodedNotFull(1)
    /\ ServedPage(2).Items # <<>>

\* C17 as stated: whatever offset and total are, NextPage returns the
\* terminal value -1 when limit is 0.
C17_ZeroLimitIsTerminal ==
    (Returned /\ r.Limit = 0) => page = NoNextPage

\* C18: the division by limit is executed only when limit > 0: no call of
\* NextPage, whatever offset, limit and total are, ends in a division by
\* zero, and every call returns.
C18_NoDivisionByZero ==
    /\ pc # "panic"
    /\ ~DivisionFault(r)
    /\ (Returned /\ r.Limit <= 0 /\ ~NotFull(r)) => page = 0

\* C18 witness: a call with limit 0 that passed the first test returned
\* without dividing
C18_Witness ==
    /\ Returned
    /\ r.Limit = 0 /\ r.Total - r.Offset >= 0
    /\ page = 0

\* the step page = extractNextPage[E](*r) after a decoded page that is not
\* the last one
Advances == pc = "sendData" /\ pc' = "build" /\ page' # NoNextPage

\* C19 as stated: the page index of a scroll starts at 1, never decreases
\* (the terminal value -1 ends the scroll and is no page index), and is
\* strictly larger after every decoded page that is not the last one.
C19_PageIndexAdvances ==
    /\ page = FirstPage
    /\ [][/\ page' # NoNextPage => page' >= page
          /\ Advances => page' > page]_vars

\* both scrolls ran against the source without any failed attempt
BothErrorFree == firstRun.done /\ firstRun.clean /\ ErrorFree /\ errLog = <<>>

\* C20: of two scroll operations with the same configuration over the
\* unchanged source, both free of errors, the second delivers at every
\* moment a prefix of what the first delivered, and when its caller has
\* seen the data channel closed, the same sequence, item by item, under
\* every interleaving of producer and consumer in both operations.
C20_SameSequenceTwice ==
    BothErrorFree =>
        /\ IsPrefix(received, firstRun.items)
        /\ cDone => received = firstRun.items

\* C20 witness: both scrolls are over, free of errors, each took more than
\* one request and delivered the same items, more than one
C20_Witness ==
    /\ BothErrorFree /\ cDone
    /\ Len(fetchLog) >= 2
    /\ Len(received) >= 2
    /\ received = firstRun.items

\* the page index behind an entry of the request history: no page
\* parameter stands for page 1
AsRequested(p) == IF p = 0 THEN 1 ELSE p

\* the page the i-th request of a scroll running alone asks for, given the
\* outcome of the request before it: page 1 first, the same page after a
\* failed attempt, the page NextPage gives after a decoded one
SoloPage(fl, rl, i) ==
    IF i = 1 THEN FirstPage
    ELSE IF IsFailure(rl[i - 1]) THEN fl[i - 1]
    ELSE AsRequested(NextPage(ServedPage(fl[i - 1])))

\* the items of the pages a scroll has decoded, in order
DecodedItemsOf(fl, rl) ==
    Flatten([i \in 1..Len(rl) |->
                IF rl[i] = "ok" THEN PageItems(fl[i]) ELSE <<>>])

\* the scroll operation in state s has behaved as a scroll running alone
\* over this source does
SoloRun(s) ==
    /\ \A i \in 1..Len(s.fetchLog) :
          s.fetchLog[i] = SoloPage(s.fetchLog, s.resultLog, i)
    /\ IsPrefix(s.received, DecodedItemsOf(s.fetchLog, s.resultLog))
    /\ (s.cDone /\ Len(s.resultLog) < MaxLog) =>
          s.received = DecodedItemsOf(s.fetchLog, s.resultLog)

\* C21: of two scroll operations running concurrently with the same
\* ApiClient, one for projects and one for issues, each requests under
\* every interleaving the page indices a scroll running alone requests and
\* delivers the items of the pages it decoded, in order: nothing one of them
\* does changes what the other requests or delivers.
C21_ConcurrentScrollsIndependent ==
    SoloRun(Running) /\ SoloRun(other)

\* C21 witness: both scroll operations have a request under way at the
\* same time, for different pages, and one of them has delivered items
C21_Witness ==
    /\ pc = "decode" /\ other.pc = "decode"
    /\ fetchLog = <<1, 2>> /\ other.fetchLog = <<1>>
    /\ kind # other.kind
    /\ received # <<>>

\* C22: no step of a scroll operation, whether it builds a URL, fetches,
\* fails, retries, sends or closes, changes the ApiClient it was called
\* with: base URL, token, logging flag and time-entry filter stay as they
\* were; and every URL it builds is read off that unchanged configuration.
C22_ConfigNeverModified ==
    /\ [][ac' = ac]_vars
    /\ [](pc = "get" =>
            /\ url.base = ac.Url
            /\ kind = "TimeEntries" =>
                  <<"user_id", ac.TimeEntriesFilter.UserId>> \in url.query)

\* C22 witness: a scroll of time entries went through a failed attempt, a
\* retry and further pages up to its end, and the configuration is the one
\* the caller passed
C22_Witness ==
    /\ kind = "TimeEntries" /\ pc = "done"
    /\ errLog # <<>> /\ Len(fetchLog) >= 3
    /\ ac.Token = "secret" /\ ac.LogEnabled

\* the high-level kinds of error the README documents for the error channel
Documented ==
    {JsonDecodeError, IoReadError, HttpError, ApiEndpointUrlFatalError,
     ApiNewRequestFatalError}

\* C23: every error sent on the error channel, waiting in it, received
\* from it or about to be sent is of one of the documented high-level
\* kinds; the low-level error of the URL build or of the transport is never
\* sent bare.
C23_OnlyDocumentedKinds ==
    /\ \A i \in 1..Len(errLog) : errLog[i] \in Documented
    /\ \A i \in 1..Len(errChan) : errChan[i] \in Documented
    /\ \A i \in 1..Len(errsRecv) : errsRecv[i] \in Documented
    /\ pc = "sendErr" => pendErr \in Documented

\* C23 witness: BuildApiUrl failed with the low-level UrlJoinPathError and
\* what the caller received is the ApiEndpointUrlFatalError
C23_Witness ==
    /\ ApiUrl(kind, ac, FirstPage).err = UrlJoinPathError
    /\ errLog = <<ApiEndpointUrlFatalError>>
    /\ errsRecv = <<ApiEndpointUrlFatalError>>

\* the call of DecodeResp has returned
Decoded == pc = "decodeDone"

\* C24: DecodeResp returns IoReadError and a nil page when reading the body
\* fails; JsonDecodeError and a nil page when the body was read but is not
\* JSON (also when it is empty); and otherwise no error and a page holding
\* what the body carries. It never returns both a page and an error.
C24_DecodeRespResults ==
    Decoded =>
        /\ resp.body.type = "abort" =>
              pendErr = IoReadError /\ r = NilPage
        /\ resp.body.type \in {"empty", "text"} =>
              pendErr = JsonDecodeError /\ r = NilPage
        /\ resp.body.type = "json" =>
              /\ pendErr = "nil" /\ r # NilPage
              /\ r.Items = resp.body.Items /\ r.Offset = resp.body.Offset
              /\ r.Limit = resp.body.Limit /\ r.Total = resp.body.Total
        /\ resp.body.type = "object" =>
              pendErr = "nil" /\ r # NilPage /\ r.Items = <<>>
        /\ ~(r # NilPage /\ pendErr # "nil")
        /\ r = NilPage => pendErr # "nil"

\* C24 witness: a body that was read but is not JSON gave JsonDecodeError
\* and no page
C24_Witness ==
    /\ Decoded /\ resp.body = TextBody
    /\ pendErr = JsonDecodeError /\ r = NilPage

\* C25: DecodeResp closes the stream it was given exactly once, whether
\* the read failed, the body did not parse or a page was decoded; and not
\* before it was called.
C25_StreamClosedOnce ==
    /\ pc = "decodeResp" => resp.closes = 0
    /\ Decoded => resp.closes = 1

\* C25 witness: the read of the stream failed and the stream was closed
C25_Witness ==
    /\ Decoded /\ resp.body = AbortBody
    /\ pendErr = IoReadError
    /\ resp.closes = 1

\* the call of Validate has returned
Validated == pc = "validated"

\* an id field of the payload is set: it is not the zero value
IsSet(id) == id # 0

\* exactly one of ProjectID and IssueID is set
OneIdSet(p) == IsSet(p.ProjectID) # IsSet(p.IssueID)

\* C26 as stated: Validate returns nil exactly when SpentOn is not the zero
\* time and exactly one of ProjectID and IssueID is set; any error it
\* returns wraps ValidationError together with ZeroTimeDetectedError only
\* for a zero SpentOn, ProjectAndIssuePassedError only when both ids are
\* set, ProjectAndIssueMissedError only when neither is.
C26_ValidateTimeEntry ==
    Validated =>
        LET p == post.payload
        IN  /\ post.err = {} <=> (~IsZero(p.SpentOn) /\ OneIdSet(p))
            /\ post.err # {} =>
                  /\ ValidationError \in post.err
                  /\ \/ /\ ZeroTimeDetectedError \in post.err
                        /\ IsZero(p.SpentOn)
                     \/ /\ ProjectAndIssuePassedError \in post.err
                        /\ IsSet(p.ProjectID) /\ IsSet(p.IssueID)
                     \/ /\ ProjectAndIssueMissedError \in post.err
                        /\ ~IsSet(p.ProjectID) /\ ~IsSet(p.IssueID)

\* attempt i decoded a page that reports limit 0
DecodedZeroLimit(i) ==
    resultLog[i] = "ok" /\ ServedPage(fetchLog[i]).Limit = 0

\* C27 as stated: after a scroll has decoded a page that reports limit 0
\* it issues no further request: that attempt stays the last one, and the
\* task goes on to close both channels.
C27_ZeroLimitEndsScroll ==
    \A i \in 1..Len(resultLog) :
        DecodedZeroLimit(i) =>
            /\ Len(fetchLog) = i
            /\ pc \in {"sendData", "build"} \cup Closing
            /\ pc # "sendData" => page = NoNextPage

\* NextPage was called on a record with limit > 0 that is not the last
\* page, and has returned
ReturnedNext == Returned /\ r.Limit > 0 /\ ~NotFull(r)

\* C28 as stated: for every non-terminal (offset, limit, total) with
\* limit > 0 the result n satisfies (n - 1) * limit = offset + limit.
C28_NextOffsetExact ==
    ReturnedNext => (page - 1) * r.Limit = r.Offset + r.Limit

\* C28: for every non-terminal (offset, limit, total) with limit > 0 the
\* result n satisfies (n - 1) * limit = offset + limit exactly when offset
\* is a multiple of limit; for any offset with offset + limit >= 0 it is the
\* page that contains offset + limit: (n - 1) * limit <= offset + limit
\* < n * limit. The pages a scroll decodes have offsets that are multiples
\* of their limit, so there the equality holds.
C28_NextOffsetWhenAligned ==
    /\ ReturnedNext =>
          /\ (r.Offset % r.Limit = 0) <=>
                ((page - 1) * r.Limit = r.Offset + r.Limit)
          /\ r.Offset + r.Limit >= 0 =>
                /\ (page - 1) * r.Limit <= r.Offset + r.Limit
                /\ r.Offset + r.Limit < page * r.Limit
    /\ (pc = "sendData" /\ r.Limit > 0) => r.Offset % r.Limit = 0
    /\ (pc = "build" /\ page > FirstPage) =>
          (page - 1) * limit = ServedPage(page).Offset

\* C28 witness: offset 1, limit 2, total 3: the call returned 2, and
\* (2 - 1) * 2 is not 1 + 2
C28_Witness ==
    /\ Returned
    /\ r.Offset = 1 /\ r.Limit = 2 /\ r.Total = 3
    /\ page = 2

\* C29: what the engine does with a response does not depend on its status
\* code: whatever the status, the body is handed to the decoder; a body that
\* cannot be read or parsed gives IoReadError or JsonDecodeError, never
\* HttpError, and a body that decodes is taken as a page to be sent, also
\* under a status that is not a success.
C29_StatusIgnored ==
    /\ pc = "decode" => resp = httpRes.body
    /\ pc \in {"sendErr", "sendData"} =>
          /\ httpRes.body.type \in {"empty", "text"} =>
                pc = "sendErr" /\ pendErr = JsonDecodeError
          /\ httpRes.body.type = "abort" =>
                pc = "sendErr" /\ pendErr = IoReadError
          /\ httpRes.body.type \in {"json", "object"} =>
                pc = "sendData" /\ r = Unmarshalled(httpRes.body)

\* C29 witness: a response with status 500 whose body is a page with items
\* was decoded, and the page is about to be sent on the data channel
C29_Witness ==
    /\ httpRes.status = 500
    /\ httpRes.body.type = "json" /\ httpRes.body.Items # <<>>
    /\ pc = "sendData"
    /\ r.Items = httpRes.body.Items

\* the README loop has returned: it has seen the data channel closed
ReadmeLoopReturned == consumer = "select" /\ cDone

\* C30 (as stated): when a consumer that follows the README loop returns,
\* it has received every error the engine sent, in every interleaving; with
\* a malformed base URL it has received the ApiEndpointUrlFatalError.
C30_ReadmeLoopSeesEveryError ==
    (ReadmeLoopReturned /\ Len(errLog) < MaxLog) =>
        /\ errsRecv = errLog
        /\ ac.Url = "malformed" => errsRecv = <<ApiEndpointUrlFatalError>>

\* C31: the error channel is closed before the data channel: in every
\* reachable state in which the data channel is closed the error channel is
\* closed too, and the step that closes the data channel starts from a state
\* in which the error channel is already closed.
C31_ErrClosedBeforeData ==
    /\ dataClosed => errClosed
    /\ (pc = "closeData") => (errClosed /\ ~dataClosed)

\* C31 witness: the error channel is closed and known to be closed by the
\* consumer while the data channel is still open, after a page was sent
C31_Witness ==
    /\ errClosed /\ ~dataClosed
    /\ pc = "closeData"
    /\ firstRecv # None
    /\ fetchLog # <<>>

\* a step of the producer after a channel was closed: nothing is fetched,
\* nothing is sent, a closed channel stays closed and the task only goes on
\* to its end
AfterClose ==
    /\ fetchLog' = fetchLog /\ errLog' = errLog
    /\ Len(errChan') <= Len(errChan) /\ Len(dataChan') <= Len(dataChan)
    /\ errClosed' /\ (dataClosed => dataClosed')
    /\ pc' \in {"closeData", "done"}

\* C32: each channel is closed exactly once (a close is only ever executed
\* on an open channel), the producer sends nothing on a channel and fetches
\* nothing once either channel is closed, and the final state is absorbing.
C32_DoneIsAbsorbing ==
    /\ [](pc = "closeErr" => ~errClosed /\ ~dataClosed)
    /\ [](pc = "closeData" => ~dataClosed)
    /\ [](pc \notin Closing => ~errClosed /\ ~dataClosed)
    /\ [][(errClosed \/ dataClosed) => AfterClose]_vars
    /\ [][pc = "done" => pc' = "done"]_vars

\* C32 witness: the task is done after two fetches, both channels are
\* closed and the last page is still in the data channel
C32_Witness ==
    /\ pc = "done" /\ dataClosed /\ errClosed
    /\ Len(fetchLog) >= 2
    /\ dataChan # <<>>

\* the pages fetched and not yet received: those waiting in the data
\* channel and the one the producer holds, as a response or decoded
HeldPages ==
    Len(dataChan) + (IF pc \in {"decode", "sendData"} THEN 1 ELSE 0)

\* C33: buffering is bounded: at most one page waits in the data channel
\* and at most one error in the error channel, and at most two fetched
\* pages have not been received yet, so the items decoded and not received
\* are never more than those of two pages, whatever the consumer does.
C33_BoundedBuffering ==
    /\ Len(dataChan) <= 1
    /\ Len(errChan) <= 1
    /\ HeldPages <= 2
    /\ Len(resultLog) < MaxLog =>
          Len(DecodedItems) - Len(received) <= 2 * limit

\* C33 witness: the consumer has received nothing, one full page waits in
\* the data channel and the producer holds the next one, decoded
C33_Witness ==
    /\ received = <<>> /\ firstRecv = None
    /\ limit >= 1
    /\ Len(dataChan) = 1
    /\ pc = "sendData"
    /\ Len(DecodedItems) = 2 * limit

\* ApiUrl has returned a URL without error
UrlBuilt == pc = "urlDone" /\ pendErr = "nil"

\* the query parameters of the filter, as TimeEntriesUrl sets them
FilterParams ==
    {<<"user_id", ac.TimeEntriesFilter.UserId>>,
     <<"from", ac.TimeEntriesFilter.StartDate.date>>,
     <<"to", ac.TimeEntriesFilter.EndDate.date>>}

\* C34: the URL carries the parameter page=p exactly when p > 1; for p <= 1
\* it carries no page parameter; in both cases the parameters set before
\* (user_id, from, to for time entries, none for the other kinds) are kept.
C34_PageParamFromTwo ==
    UrlBuilt =>
        /\ page > 1 => url.page = page
        /\ page <= 1 => url.page = 0
        /\ url.query = (IF kind = "TimeEntries" THEN FilterParams ELSE {})
        /\ url.base = ac.Url

\* C34 witness: the URL of time entries was built for page 1: it has no
\* page parameter and keeps the three parameters of the filter
C34_Witness ==
    /\ UrlBuilt /\ kind = "TimeEntries"
    /\ page = 1 /\ url.page = 0
    /\ Cardinality(url.query) = 3

\* the same client with another time-entry filter
WithFilter(f) == [ac EXCEPT !.TimeEntriesFilter = f]

\* C35: the time-entry filter influences only the requests for time
\* entries: the URL built for projects or issues, for a given base URL and
\* page index, is the one built under every other value of the filter, and
\* carries none of its values.
C35_FilterOnlyForTimeEntries ==
    (pc = "urlDone" /\ kind \in {"Projects", "Issues"}) =>
        /\ \A f \in UrlFilters :
              /\ ApiUrl(kind, WithFilter(f), page).url = url
              /\ ApiUrl(kind, WithFilter(f), page).err = pendErr
        /\ url.query = {}

\* C35 witness: a URL for page 2 of the projects was built with a filter
\* other than the README's, and the URL of the time entries for the same
\* client would differ under another filter
C35_Witness ==
    /\ UrlBuilt /\ kind = "Projects" /\ page = 2
    /\ ac.TimeEntriesFilter.UserId = "2"
    /\ ac.TimeEntriesFilter.StartDate.clock # <<0, 0, 0>>
    /\ \E f \in UrlFilters :
          ApiUrl("TimeEntries", WithFilter(f), page).url
              # ApiUrl("TimeEntries", ac, page).url

\* what the source reports for the page the last request asked for
Reported ==
    [Offset |-> IF url.page > 1 THEN limit * (url.page - 1) ELSE 0,
     Limit |-> limit,
     Total |-> total]

\* the pagination metadata read back from a decoded page
Metadata(p) == [Offset |-> p.Offset, Limit |-> p.Limit, Total |-> p.Total]

Created == pc = "created"
Responded == httpRes # NoRes

\* C37: ApiClient.Create returns nil exactly when the response status is
\* 201; when the transport fails it returns an error wrapping HttpError;
\* for every other status, other 2xx codes included, it returns an error
\* wrapping HttpError that carries the status code and the body read.
C37_CreateResult ==
    Created =>
        /\ post.err = {} <=> (Responded /\ httpRes.status = 201)
        /\ (~Responded /\ url.base # "malformed") => post.err = {HttpError}
        /\ (Responded /\ httpRes.status # 201) =>
              /\ HttpError \in post.err
              /\ ResponseCodeError \in post.err
              /\ post.code = httpRes.status
              /\ httpRes.body.type # "abort" =>
                    post.msg = httpRes.body /\ ReadError \notin post.err
              /\ httpRes.body.type = "abort" => ReadError \in post.err

\* C37 witness: the server answered 200 with a text body and Create
\* returned an HttpError with that code and body
C37_Witness ==
    /\ Created /\ Responded
    /\ httpRes.status = 200 /\ httpRes.body = TextBody
    /\ HttpError \in post.err
    /\ post.code = 200 /\ post.msg = TextBody

\* C38 (as stated): every response body obtained is closed when the
\* operation that obtained it returns; for a POST: when Create has returned,
\* on the 201 path and on the other, the body was closed.
C38_BodiesClosed ==
    (Created /\ Responded) => httpRes.closes >= 1

\* the piece is the text of a date that exists in the calendar
ExistingDate(x) ==
    /\ x.k = "date"
    /\ x.ymd[2] >= 1 /\ x.ymd[2] <= 12
    /\ x.ymd[3] >= 1 /\ x.ymd[3] <= DaysIn(x.ymd[1], x.ymd[2])

\* the input is a YYYY-MM-DD date: the text of one existing date and, apart
\* from double quotes before and after it, nothing else
IsDateInput(b) ==
    \E i \in 1..Len(b) :
        /\ ExistingDate(b[i])
        /\ \A j \in 1..Len(b) : j # i => b[j] = Quote

\* a Date without a time of day
DateOnly(d) == d.clock = <<0, 0, 0>>

====
